---- MODULE Spec2Model ----
(***************************************************************************)
(* Model of mandrill/mayhem_25.py: a Pub/Sub consumer whose delivery       *)
(* callback runs on transport threads and hands each message to one        *)
(* asyncio event loop, which runs a pipeline (save, restart_host, cleanup) *)
(* per message.                                                            *)
(*                                                                         *)
(* The event loop is modelled as asyncio runs it: a FIFO deque of ready    *)
(* handles (`ready`), executed in batches (one batch per _run_once: the    *)
(* handles that were ready when the iteration began), timers that move to  *)
(* the deque when an iteration begins, and loop.stop() taking effect at    *)
(* the end of the batch in which it was called.  Each handle executes one  *)
(* task step: the code of a coroutine from one suspension point to the     *)
(* next.                                                                   *)
(***************************************************************************)
EXTENDS Naturals, Sequences, FiniteSets

\* Bounds of the model.
MaxMsgs == 2        \* deliveries the transport makes
NThreads == 2       \* transport threads that may run the callback
MaxProducerMsgs == 1 \* deliveries made while the producer is modelled too

Msgs == 1..MaxMsgs
Threads == 1..NThreads

\* A payload is pubsub_msg.data: either bytes that are no JSON document, or
\* a JSON object that has or lacks the key 'instance_name'.
NameOrder == <<"abcd", "wxyz">>
Names == {NameOrder[i] : i \in DOMAIN NameOrder}
NoPayload == [json |-> FALSE, haskey |-> FALSE, name |-> "-"]
Payloads ==
    {[json |-> TRUE, haskey |-> TRUE, name |-> n] : n \in Names}
    \cup {[json |-> TRUE, haskey |-> FALSE, name |-> ""],
          [json |-> FALSE, haskey |-> FALSE, name |-> ""]}

\* No PubSubMessage has been built.
NoMsg == [instance_name |-> "-", message_id |-> 0, hostname |-> "-"]

VARIABLES
    ready,          \* loop._ready: FIFO of handles [k, task, m]
    ntodo,          \* handles left in the batch of the current _run_once
    timers,         \* loop._scheduled: tasks with a pending call_later
    stopping,       \* loop._stopping, set by loop.stop()
    halted,         \* run_forever() has returned
    signalled,      \* SIGINT has been received
    GLOBAL_QUEUE,   \* asyncio.Queue: the items, oldest first
    getter,         \* get_from_queue is suspended in GLOBAL_QUEUE.get()
    delivered,      \* number of callback invocations so far
    data,           \* data[m]: payload of message m
    thread,         \* thread[m]: thread that ran the callback for m (0: none)
    injected,       \* injected[m]: run_coroutine_threadsafe calls made for m
    dequeued,       \* items returned by GLOBAL_QUEUE.get(), in order
    hm,             \* hm[m]: state of the task handle_message(m)
    event,          \* event[e]: the asyncio.Event that handle_message(e) created
    cl,             \* cl[m]: state of the task cleanup(m, event)
    sv,             \* sv[m]: state of the task save(msg)
    rh,             \* rh[m]: state of the task restart_host(msg)
    nfinished,      \* nfinished[m]: children of m's gather() that are done
    outer,          \* outer[m]: the future gather() returned to handle_message
    acks,           \* acks[m]: calls of pubsub_msg.ack() for m
    msg,            \* msg[m]: the PubSubMessage handle_message(m) built
    sets,           \* sets[e]: calls of event.set() on event e
    waiters,        \* waiters[e]: event._waiters, the messages whose cleanup waits on event e
    started,        \* started[m]: create_task(handle_message(...)) calls made for m
    pub             \* state of the task publish(executor)

vars == <<ready, ntodo, timers, stopping, halted, signalled, GLOBAL_QUEUE,
          getter, delivered, data, thread, injected, dequeued, hm, event, cl,
          sv, rh, nfinished, outer, acks, msg, sets, waiters, started, pub>>

queueVars == <<GLOBAL_QUEUE, getter, dequeued>>
deliveryVars == <<delivered, data, thread, injected>>
pipeVars == <<hm, event, cl, sv, rh, nfinished, outer, acks, msg,
             sets, waiters, started>>

H(k, task, m) == [k |-> k, task |-> task, m |-> m]
T(task, m) == [task |-> task, m |-> m]

----------------------------------------------------------------------------
\* State after `loop.create_task(run())` has started run_pubsub (which
\* subscribed the callback and created the publish task) and get_from_queue:
\* the tasks `tasks` are ready to take their first step.
Started(tasks) ==
    /\ ready = [i \in 1..Len(tasks) |-> H("step", tasks[i], 0)]
    /\ ntodo = 0
    /\ timers = {}
    /\ stopping = FALSE
    /\ halted = FALSE
    /\ signalled = FALSE
    /\ GLOBAL_QUEUE = <<>>
    /\ getter = FALSE
    /\ delivered = 0
    /\ data = [m \in Msgs |-> NoPayload]
    /\ thread = [m \in Msgs |-> 0]
    /\ injected = [m \in Msgs |-> 0]
    /\ dequeued = <<>>
    /\ hm = [m \in Msgs |-> "none"]
    /\ event = [m \in Msgs |-> "none"]
    /\ cl = [m \in Msgs |-> "none"]
    /\ sv = [m \in Msgs |-> "none"]
    /\ rh = [m \in Msgs |-> "none"]
    /\ nfinished = [m \in Msgs |-> 0]
    /\ outer = [m \in Msgs |-> "none"]
    /\ acks = [m \in Msgs |-> 0]
    /\ msg = [m \in Msgs |-> NoMsg]
    /\ sets = [m \in Msgs |-> 0]
    /\ waiters = [e \in Msgs |-> <<>>]
    /\ started = [m \in Msgs |-> 0]
    /\ pub = "created"

\* The consumer side alone: the publish task shares no state with the
\* pipelines, and is left out (its first step never gets scheduled).
\* run_something_else, which only logs and sleeps, is left out of both.
Init == Started(<<"get_from_queue">>)

\* The whole program, producer included.
InitProducer == Started(<<"get_from_queue", "publish">>)

----------------------------------------------------------------------------
\* The transport: consume_sync.callback, run on a transport thread.

\* Faulty variant: the delivering thread puts the item into the queue itself.
CallbackQueueDirect(q, m) == Append(q, m)

\* The delivering thread's effect on the queue: none (the insertion is
\* left to add_to_queue, which runs on the loop).
CallbackQueue(q, m) == q

\* asyncio.run_coroutine_threadsafe(add_to_queue(pubsub_msg), loop):
\* loop.call_soon_threadsafe appends one handle to loop._ready; the future
\* it returns is dropped, so the callback returns at once.
run_coroutine_threadsafe(m) == <<H("call_soon_threadsafe", "add_to_queue", m)>>

\* Threads are interchangeable: they are numbered in the order of their
\* first delivery.
FirstUse(t) == \A u \in 1..(t - 1) : \E m \in Msgs : thread[m] = u

\* Instance names are interchangeable too: they are numbered in the order of
\* their first delivery.
FirstName(p) ==
    \A i \in DOMAIN NameOrder :
        p.name = NameOrder[i] =>
            \A j \in 1..(i - 1) : \E m \in Msgs : data[m].name = NameOrder[j]

callback(t, p, bound) ==
    /\ delivered < bound
    /\ FirstUse(t)
    /\ FirstName(p)
    /\ LET m == delivered + 1 IN
        /\ delivered' = m
        /\ data' = [data EXCEPT ![m] = p]
        /\ thread' = [thread EXCEPT ![m] = t]
        /\ injected' = [injected EXCEPT ![m] = @ + Len(run_coroutine_threadsafe(m))]
        /\ ready' = ready \o run_coroutine_threadsafe(m)
        /\ GLOBAL_QUEUE' = CallbackQueue(GLOBAL_QUEUE, m)
    /\ UNCHANGED <<ntodo, timers, stopping, halted, signalled, getter,
                   dequeued, pipeVars, pub>>

----------------------------------------------------------------------------
\* The event loop (BaseEventLoop.run_forever / _run_once).

\* Faulty variant: the sleeps of earlier messages end first (the delays are
\* taken to be equal).
DueInOrder(x) == x \in timers /\ \A y \in timers : y.m >= x.m

\* The timer x can be the next to expire: the delays are random
\* (random.random(), random.randrange(1, 3)), so any pending timer can.
Due(x) == x \in timers

\* A call_later timer expires: between two batches its handle moves from
\* loop._scheduled to loop._ready.
TimerExpire(x) ==
    /\ ntodo = 0
    /\ ~halted
    /\ Due(x)
    /\ timers' = timers \ {x}
    /\ ready' = Append(ready, H("resolve", x.task, x.m))
    /\ UNCHANGED <<ntodo, stopping, halted, signalled, queueVars,
                   deliveryVars, pipeVars, pub>>

\* SIGINT arrives: the loop's signal handling appends the handler installed
\* by add_signal_handler (the lambda of __main__) to loop._ready.
Signal ==
    /\ ntodo = 0
    /\ ~halted
    /\ ~signalled
    /\ signalled' = TRUE
    /\ ready' = Append(ready, H("signal_handler", "shutdown", 0))
    /\ UNCHANGED <<ntodo, timers, stopping, halted, queueVars, deliveryVars,
                   pipeVars, pub>>

\* Faulty variant: after run_forever has returned the loop is run again to
\* drain what is pending.
RunOnceBeginDrain ==
    /\ ntodo = 0
    /\ ready # <<>>
    /\ ntodo' = Len(ready)
    /\ UNCHANGED <<ready, timers, stopping, halted, signalled, queueVars,
                   deliveryVars, pipeVars, pub>>

\* _run_once: `ntodo = len(self._ready)`; exactly these handles run in this
\* iteration, handles appended meanwhile wait for the next one.
RunOnceBegin ==
    /\ ntodo = 0
    /\ ~halted
    /\ ready # <<>>
    /\ ntodo' = Len(ready)
    /\ UNCHANGED <<ready, timers, stopping, halted, signalled, queueVars,
                   deliveryVars, pipeVars, pub>>

\* The handle at the head of the current batch.
Running(k, task, m) ==
    /\ ntodo > 0
    /\ Head(ready) = H(k, task, m)

\* The handle has run: it is popped, `new` are the handles it scheduled with
\* call_soon and `tm` the timers it scheduled with call_later.  run_forever
\* returns after the batch in which loop.stop() was called.
Ran(new, tm, stop) ==
    /\ ready' = Tail(ready) \o new
    /\ ntodo' = ntodo - 1
    /\ timers' = timers \cup tm
    /\ stopping' = stop
    /\ halted' = (stop /\ ntodo = 1)
    /\ UNCHANGED signalled

Step(task, m) == <<H("step", task, m)>>

\* Faulty variant: an exception that ends a task stops the loop.
TaskExceptionFatal(raised) == stopping \/ raised

\* The loop's stopping flag after a step in which a task made by create_task
\* ended, with an exception (raised) or not: the exception is stored in the
\* task, which nobody awaits, and the loop goes on.
TaskException(raised) == stopping

\* A future is resolved (a timer fired, or the executor finished): the task
\* awaiting it is scheduled with call_soon.
resolve(task, m) ==
    /\ Running("resolve", task, m)
    /\ Ran(Step(task, m), {}, stopping)
    /\ UNCHANGED <<queueVars, deliveryVars, pipeVars, pub>>

\* asyncio.sleep(delay): suspend on a call_later timer.
Sleep(task, m) == {T(task, m)}

----------------------------------------------------------------------------
\* CrossThreadMailbox: add_to_queue and get_from_queue.

\* The handle of run_coroutine_threadsafe runs on the loop:
\* ensure_future(add_to_queue(msg)) creates the task.  (The task's result
\* is copied to the concurrent future the callback dropped; that has no
\* effect and is not modelled.)
call_soon_threadsafe(m) ==
    /\ Running("call_soon_threadsafe", "add_to_queue", m)
    /\ Ran(Step("add_to_queue", m), {}, stopping)
    /\ UNCHANGED <<queueVars, deliveryVars, pipeVars, pub>>

\* Faulty variant: the item goes to the front of the queue.
QueuePutFront(q, m) == <<m>> \o q

\* Faulty variant: an item put while another is queued is dropped.
QueuePutLossy(q, m) == IF q = <<>> THEN <<m>> ELSE q

\* Queue.put_nowait: the queue is unbounded, so put() never suspends.
QueuePut(q, m) == Append(q, m)

\* await GLOBAL_QUEUE.put(msg); put_nowait wakes the suspended getter.
add_to_queue(m) ==
    /\ Running("step", "add_to_queue", m)
    /\ GLOBAL_QUEUE' = QueuePut(GLOBAL_QUEUE, m)
    /\ getter' = FALSE
    /\ Ran(IF getter THEN Step("get_from_queue", 0) ELSE <<>>, {}, stopping)
    /\ UNCHANGED <<dequeued, deliveryVars, pipeVars, pub>>

\* Faulty variant: get_from_queue awaits each pipeline before the next get().
QueueGetInline(q) ==
    IF q = <<>> \/ \E m \in Msgs : hm[m] \in {"created", "gathering"}
    THEN <<>> ELSE <<Head(q)>>

\* Faulty variant: get_from_queue awaits handle_message, whose exception ends
\* it: nothing is taken once a handle_message has raised.
QueueGetUntilFailure(q) ==
    IF \E m \in Msgs : hm[m] = "raised" THEN <<>> ELSE q

\* The items one step of get_from_queue takes: GLOBAL_QUEUE.get() suspends
\* only when the queue is empty, and create_task never suspends, so the
\* `while True` loop takes every queued item, oldest first, before it
\* suspends in get().
QueueGet(q) == q

\* Faulty variant: a task is created when the item is got and again after
\* the logging.
SpawnedTwice(items) ==
    [i \in 1..(2 * Len(items)) |-> H("step", "handle_message", items[(i + 1) \div 2])]

\* asyncio.create_task(handle_message(pubsub_msg)) for each item taken.
Spawned(items) == [i \in 1..Len(items) |-> H("step", "handle_message", items[i])]

get_from_queue ==
    /\ Running("step", "get_from_queue", 0)
    /\ LET items == QueueGet(GLOBAL_QUEUE) IN
        /\ dequeued' = dequeued \o items
        /\ GLOBAL_QUEUE' = SubSeq(GLOBAL_QUEUE, Len(items) + 1, Len(GLOBAL_QUEUE))
        /\ getter' = (Len(items) = Len(GLOBAL_QUEUE))
        /\ hm' = [m \in Msgs |->
                    IF \E i \in 1..Len(items) : items[i] = m
                    THEN "created" ELSE hm[m]]
        /\ started' = [m \in Msgs |->
                    started[m] + Cardinality({i \in DOMAIN Spawned(items) :
                                                Spawned(items)[i].m = m})]
        /\ Ran(Spawned(items), {}, stopping)
    /\ UNCHANGED <<deliveryVars, event, cl, sv, rh, nfinished, outer, acks, msg, sets, waiters, pub>>

----------------------------------------------------------------------------
\* MessagePipeline: handle_message, save, restart_host, cleanup.

\* Faulty variant: a missing key is tolerated (msg_data.get('instance_name')).
ParseOkLenient(d) == d.json

\* json.loads(pubsub_msg.data.decode('utf-8')) raises on bytes that are no
\* JSON document, msg_data['instance_name'] raises when the key is missing.
ParseOk(d) == d.json /\ d.haskey

\* Faulty variant: hostname is a class attribute, computed for the first
\* PubSubMessage built and carried over to the later ones.
hostname_carried_over(instance_name) ==
    IF \E m \in Msgs : msg[m] # NoMsg
    THEN (CHOOSE h \in {msg[m].hostname : m \in {n \in Msgs : msg[n] # NoMsg}} : TRUE)
    ELSE instance_name \o ".example.net"

\* __attrs_post_init__: self.hostname = f'{self.instance_name}.example.net'
hostname(instance_name) == instance_name \o ".example.net"

\* PubSubMessage(message_id=..., instance_name=...): attrs stores the two
\* arguments and __attrs_post_init__ computes hostname.
PubSubMessage(message_id, instance_name) ==
    [instance_name |-> instance_name, message_id |-> message_id,
     hostname |-> hostname(instance_name)]

\* Faulty variant: the cleanup task is not created.
DispatchNoCleanup(m) ==
    <<H("step", "save", m), H("step", "restart_host", m)>>

\* What handle_message starts once the payload is parsed, in the order of
\* the code: create_task(cleanup(...)), then gather's ensure_future of
\* save(msg) and restart_host(msg).
Dispatch(m) ==
    <<H("step", "cleanup", m), H("step", "save", m), H("step", "restart_host", m)>>

\* Faulty variant: one module-level event is shared by all pipelines.
EventShared(m) == 1

\* event = asyncio.Event(): the event of m's pipeline is the one that
\* handle_message(m) created, a new one per call; it is passed to m's cleanup.
Event(m) == m

\* First step of handle_message: parse, build msg, create the event, dispatch, and
\* suspend in gather(); a parse error ends the task with the exception.
handle_message(m) ==
    /\ Running("step", "handle_message", m)
    /\ hm[m] = "created"
    /\ IF ParseOk(data[m])
       THEN /\ hm' = [hm EXCEPT ![m] = "gathering"]
            /\ msg' = [msg EXCEPT ![m] = PubSubMessage(m, data[m].name)]
            /\ event' = [event EXCEPT ![Event(m)] = "unset"]
            /\ cl' = [cl EXCEPT ![m] = "created"]
            /\ sv' = [sv EXCEPT ![m] = "created"]
            /\ rh' = [rh EXCEPT ![m] = "created"]
            /\ outer' = [outer EXCEPT ![m] = "pending"]
            /\ Ran(Dispatch(m), {}, stopping)
       ELSE /\ hm' = [hm EXCEPT ![m] = "raised"]
            /\ Ran(<<>>, {}, TaskException(TRUE))
            /\ UNCHANGED <<event, cl, sv, rh, outer, msg>>
    /\ UNCHANGED <<queueVars, deliveryVars, nfinished, acks, sets, waiters, started, pub>>

\* A finished child of gather() schedules gather's _done_callback.
DoneCallback(task, m) == <<H("done_callback", task, m)>>

\* save: await asyncio.sleep(random.random()).
save_start(m) ==
    /\ Running("step", "save", m)
    /\ sv[m] = "created"
    /\ sv' = [sv EXCEPT ![m] = "sleeping"]
    /\ Ran(<<>>, Sleep("save", m), stopping)
    /\ UNCHANGED <<queueVars, deliveryVars, hm, event, cl, rh, nfinished, outer, acks, msg, sets, waiters, started, pub>>

\* save: the sleep is over, the coroutine returns.
save_finish(m) ==
    /\ Running("step", "save", m)
    /\ sv[m] = "sleeping"
    /\ sv' = [sv EXCEPT ![m] = "done"]
    /\ Ran(DoneCallback("save", m), {}, stopping)
    /\ UNCHANGED <<queueVars, deliveryVars, hm, event, cl, rh, nfinished, outer, acks, msg, sets, waiters, started, pub>>

\* restart_host: rand_int = random.randrange(1, 3); 2 raises at once,
\* 1 goes on to await asyncio.sleep(random.randrange(1, 3)).
restart_host_start(m, rand_int) ==
    /\ Running("step", "restart_host", m)
    /\ rh[m] = "created"
    /\ IF rand_int = 2
       THEN /\ rh' = [rh EXCEPT ![m] = "raised"]
            /\ Ran(DoneCallback("restart_host", m), {}, stopping)
       ELSE /\ rh' = [rh EXCEPT ![m] = "sleeping"]
            /\ Ran(<<>>, Sleep("restart_host", m), stopping)
    /\ UNCHANGED <<queueVars, deliveryVars, hm, event, cl, sv, nfinished, outer, acks, msg, sets, waiters, started, pub>>

restart_host_finish(m) ==
    /\ Running("step", "restart_host", m)
    /\ rh[m] = "sleeping"
    /\ rh' = [rh EXCEPT ![m] = "done"]
    /\ Ran(DoneCallback("restart_host", m), {}, stopping)
    /\ UNCHANGED <<queueVars, deliveryVars, hm, event, cl, sv, nfinished, outer, acks, msg, sets, waiters, started, pub>>

\* Faulty variant: gather without return_exceptions.
return_exceptions_default == FALSE

\* gather(save(msg), restart_host(msg), return_exceptions=True)
return_exceptions == TRUE

\* The children of gather(): nfuts.
Children == {"save", "restart_host"}

\* Faulty variant: the outer future gets its result with the first finished child.
GatherDoneFirst(n) == n >= 1

\* gather gives the outer future its result when nfinished == nfuts.
GatherDone(n) == n = Cardinality(Children)

\* The child's coroutine raised.
Raised(task, m) == task = "restart_host" /\ rh[m] = "raised"

\* gather's _done_callback for one finished child: nothing when the outer
\* future is done; without return_exceptions the first exception of a child
\* becomes the exception of the outer future; otherwise the child is counted
\* and the last one sets the result (an exception is one of the results).
done_callback(task, m) ==
    /\ Running("done_callback", task, m)
    /\ IF outer[m] # "pending"
       THEN /\ Ran(<<>>, {}, stopping)
            /\ UNCHANGED <<nfinished, outer>>
       ELSE IF ~return_exceptions /\ Raised(task, m)
       THEN /\ outer' = [outer EXCEPT ![m] = "exception"]
            /\ Ran(Step("handle_message", m), {}, stopping)
            /\ UNCHANGED nfinished
       ELSE /\ nfinished' = [nfinished EXCEPT ![m] = @ + 1]
            /\ IF GatherDone(nfinished[m] + 1)
               THEN /\ outer' = [outer EXCEPT ![m] = "result"]
                    /\ Ran(Step("handle_message", m), {}, stopping)
               ELSE /\ Ran(<<>>, {}, stopping)
                    /\ UNCHANGED outer
    /\ UNCHANGED <<queueVars, deliveryVars, hm, event, cl, sv, rh, acks, msg, sets, waiters, started, pub>>

\* Faulty variant: set() marks the event and wakes nobody.
EventSetNoWake(e) == <<>>

\* Event.set(): when the event is not set yet, the future of every task in
\* event._waiters is resolved, which schedules the task's next step.
EventSet(e) ==
    IF event[e] = "set" THEN <<>>
    ELSE [i \in 1..Len(waiters[e]) |-> H("step", "cleanup", waiters[e][i])]

\* Faulty variant: handle_results raises the exception it finds among the
\* results.
handle_results_reraise(m) == rh[m] # "raised"

\* handle_results(results) returns normally: it logs each exception among
\* the results and raises nothing.
handle_results(m) == TRUE

\* handle_message resumes from `await asyncio.gather(...)`: an exception of
\* the outer future is raised at the await and ends the task; otherwise
\* handle_results(results) logs the exceptions among the results and
\* event.set() resolves the future of the task waiting in event.wait().
handle_message_resume(m) ==
    /\ Running("step", "handle_message", m)
    /\ hm[m] = "gathering"
    /\ IF outer[m] = "exception" \/ ~handle_results(m)
       THEN /\ hm' = [hm EXCEPT ![m] = "raised"]
            /\ Ran(<<>>, {}, stopping)
            /\ UNCHANGED <<event, sets>>
       ELSE /\ hm' = [hm EXCEPT ![m] = "done"]
            /\ event' = [event EXCEPT ![Event(m)] = "set"]
            /\ sets' = [sets EXCEPT ![Event(m)] = @ + 1]
            /\ Ran(EventSet(Event(m)), {}, stopping)
    /\ UNCHANGED <<queueVars, deliveryVars, cl, sv, rh, nfinished, outer, acks, msg, waiters, started, pub>>

\* cleanup, first step: `await event.wait()` returns at once when the event
\* is set; otherwise the task joins event._waiters and suspends.  After
\* wait() comes `await asyncio.sleep(random.random())`.
cleanup_start(m) ==
    /\ Running("step", "cleanup", m)
    /\ cl[m] = "created"
    /\ IF event[Event(m)] = "set"
       THEN /\ cl' = [cl EXCEPT ![m] = "sleeping"]
            /\ Ran(<<>>, Sleep("cleanup", m), stopping)
            /\ UNCHANGED waiters
       ELSE /\ cl' = [cl EXCEPT ![m] = "waiting"]
            /\ waiters' = [waiters EXCEPT ![Event(m)] = Append(@, m)]
            /\ Ran(<<>>, {}, stopping)
    /\ UNCHANGED <<queueVars, deliveryVars, hm, event, sv, rh, nfinished, outer, acks, msg, sets, started, pub>>

\* The sequence s without its entries x.
Remove(s, x) == SelectSeq(s, LAMBDA y : y # x)

\* cleanup resumes from event.wait(), which leaves event._waiters, and sleeps.
cleanup_released(m) ==
    /\ Running("step", "cleanup", m)
    /\ cl[m] = "waiting"
    /\ cl' = [cl EXCEPT ![m] = "sleeping"]
    /\ waiters' = [waiters EXCEPT ![Event(m)] = Remove(@, m)]
    /\ Ran(<<>>, Sleep("cleanup", m), stopping)
    /\ UNCHANGED <<queueVars, deliveryVars, hm, event, sv, rh, nfinished, outer, acks, msg, sets, started, pub>>

\* Faulty variant: the message is acknowledged a second time.
AckTwice(n) == n + 2

\* pubsub_msg.ack(): the number of acknowledge calls after it, from n before.
Ack(n) == n + 1

\* cleanup resumes from the sleep: pubsub_msg.ack(), which returns or raises
\* (a transport error); either way the task ends.
cleanup_ack(m, ok) ==
    /\ Running("step", "cleanup", m)
    /\ cl[m] = "sleeping"
    /\ acks' = [acks EXCEPT ![m] = Ack(@)]
    /\ cl' = [cl EXCEPT ![m] = IF ok THEN "acked" ELSE "raised"]
    /\ Ran(<<>>, {}, TaskException(~ok))
    /\ UNCHANGED <<queueVars, deliveryVars, hm, event, sv, rh, nfinished, outer, msg, sets, waiters, started, pub>>

----------------------------------------------------------------------------
\* PeriodicProducer: publish and publish_sync.

\* publish: `await loop.run_in_executor(executor, publish_sync)`, at the
\* first step and after each sleep.
publish_start ==
    /\ Running("step", "publish", 0)
    /\ pub \in {"created", "sleeping"}
    /\ pub' = "in_executor"
    /\ Ran(<<>>, {}, stopping)
    /\ UNCHANGED <<queueVars, deliveryVars, pipeVars>>

\* publish_sync on an executor thread: it returns, or the client raises;
\* the executor's future hands the outcome to the loop with
\* call_soon_threadsafe.
publish_sync(ok) ==
    /\ pub = "in_executor"
    /\ pub' = IF ok THEN "returned" ELSE "failed"
    /\ ready' = Append(ready, H("resolve", "publish", 0))
    /\ UNCHANGED <<ntodo, timers, stopping, halted, signalled, queueVars,
                   deliveryVars, pipeVars>>

\* publish resumes from run_in_executor: after a return it goes on to
\* `await asyncio.sleep(3)`; an exception of publish_sync is raised at the
\* await, which no try/except encloses, and ends the task.
publish_resume ==
    /\ Running("step", "publish", 0)
    /\ pub \in {"returned", "failed"}
    /\ IF pub = "returned"
       THEN /\ pub' = "sleeping"
            /\ Ran(<<>>, Sleep("publish", 0), stopping)
       ELSE /\ pub' = "raised"
            /\ Ran(<<>>, {}, stopping)
    /\ UNCHANGED <<queueVars, deliveryVars, pipeVars>>

----------------------------------------------------------------------------
\* Supervisor: the SIGINT handler and shutdown.

\* lambda: asyncio.create_task(shutdown(signal.SIGINT, loop))
signal_handler ==
    /\ Running("signal_handler", "shutdown", 0)
    /\ Ran(Step("shutdown", 0), {}, stopping)
    /\ UNCHANGED <<queueVars, deliveryVars, pipeVars, pub>>

\* shutdown: loop.stop().
shutdown ==
    /\ Running("step", "shutdown", 0)
    /\ Ran(<<>>, {}, TRUE)
    /\ UNCHANGED <<queueVars, deliveryVars, pipeVars, pub>>

----------------------------------------------------------------------------
\* The timers the tasks can arm.
Timers == {T(task, m) : task \in {"cleanup", "save", "restart_host"}, m \in Msgs}
            \cup {T("publish", 0)}

\* The handles of the consumer side: the one at the head of the batch runs.
Handle ==
    \/ \E x \in Timers : resolve(x.task, x.m)
    \/ \E m \in Msgs : call_soon_threadsafe(m)
    \/ \E m \in Msgs : add_to_queue(m)
    \/ get_from_queue
    \/ \E m \in Msgs : handle_message(m)
    \/ \E m \in Msgs : save_start(m)
    \/ \E m \in Msgs : save_finish(m)
    \/ \E m \in Msgs, rand_int \in 1..2 : restart_host_start(m, rand_int)
    \/ \E m \in Msgs : restart_host_finish(m)
    \/ \E m \in Msgs, task \in {"save", "restart_host"} : done_callback(task, m)
    \/ \E m \in Msgs : handle_message_resume(m)
    \/ \E m \in Msgs : cleanup_start(m)
    \/ \E m \in Msgs : cleanup_released(m)
    \/ \E m \in Msgs, ok \in BOOLEAN : cleanup_ack(m, ok)
    \/ signal_handler
    \/ shutdown

\* The handles of the producer.
HandleProducer ==
    \/ publish_start
    \/ publish_resume

\* What happens to the loop from outside: timers expire, SIGINT arrives.
Environment ==
    \/ \E x \in Timers : TimerExpire(x)
    \/ Signal

Next ==
    \/ \E t \in Threads, p \in Payloads : callback(t, p, MaxMsgs)
    \/ Environment
    \/ RunOnceBegin
    \/ Handle

Spec == Init /\ [][Next]_vars

NextProducer ==
    \/ \E t \in Threads, p \in Payloads : callback(t, p, MaxProducerMsgs)
    \/ Environment
    \/ RunOnceBegin
    \/ Handle
    \/ HandleProducer
    \/ \E ok \in BOOLEAN : publish_sync(ok)

ProducerSpec == InitProducer /\ [][NextProducer]_vars

\* The loop keeps running: run_forever starts the next iteration whenever
\* handles are ready, and runs every handle of the batch.
LoopFairness == WF_vars(RunOnceBegin) /\ WF_vars(Handle)

\* Every sleep is finite: while timers are pending, timers keep expiring.
\* (Each pending timer expiring, SF_vars(TimerExpire(x)) for every x, implies
\* this; the consumer side arms each of its timers once, so that here the two
\* say the same.)
TimerFairness == SF_vars(\E x \in Timers : TimerExpire(x))

\* The loop runs and timers expire.
FairSpec == Spec /\ LoopFairness /\ TimerFairness

\* The loop runs, but a sleep may last forever (a pipeline may be
\* indefinitely slow).
SlowSpec == Spec /\ LoopFairness

----------------------------------------------------------------------------
\* Properties.

Terminal(m) == sv[m] = "done" /\ rh[m] \in {"done", "raised"}
Delivered(m) == m <= delivered

\* A payload is well-formed when it is valid JSON with the subject-name field.
WellFormed(d) == d.json /\ d.haskey
Malformed(d) == ~d.json \/ ~d.haskey

\* C1 (ack-after-all): whenever acknowledge has been invoked for a message,
\* both sub-tasks of its pipeline, save and restart_host, have reached a
\* terminal state (returned or raised).
C1_AckAfterAll == \A m \in Msgs : acks[m] > 0 => Terminal(m)

\* A message acknowledged after its restart_host raised and its save returned.
C1_Witness == \E m \in Msgs : acks[m] = 1 /\ rh[m] = "raised" /\ sv[m] = "done"

\* C2: acknowledge is invoked at most once for any delivered message.
C2_AckAtMostOnce == \A m \in Msgs : acks[m] <= 1

\* Every delivery of the run has been acknowledged.
C2_Witness == delivered = MaxMsgs /\ \A m \in Msgs : acks[m] = 1

\* C3 as amended: under fair scheduling of the loop and its timers, every
\* delivered message whose payload parses is eventually acknowledged once,
\* whatever the outcomes of its sub-tasks, unless the loop is stopped.
C3_ValidEventuallyAcked ==
    \A m \in Msgs :
        (Delivered(m) /\ WellFormed(data[m])) ~> (acks[m] = 1 \/ stopping)

\* Every delivery parsed, and each produced one ack, with both outcomes of
\* restart_host among them.
C3_Witness ==
    /\ delivered = MaxMsgs
    /\ \A m \in Msgs : WellFormed(data[m]) /\ acks[m] = 1 /\ hm[m] = "done"
    /\ \E m \in Msgs : rh[m] = "raised"
    /\ \E m \in Msgs : rh[m] = "done"
    /\ ~stopping

\* C3 as stated: every message delivered to the callback is eventually
\* acknowledged (unless the loop is stopped).
C3_AllEventuallyAcked ==
    \A m \in Msgs : Delivered(m) ~> (acks[m] = 1 \/ stopping)

\* C4: a failing restart_host does not stop its siblings or the finalize:
\* the failure never ends handle_message (it is a result of gather), save is
\* never cut short, and once restart_host has raised, save completes, the
\* event is set and the message is acknowledged (unless the loop is stopped).
C4_FailureContained ==
    /\ [](\A m \in Msgs :
            rh[m] = "raised" =>
                /\ hm[m] \in {"gathering", "done"}
                /\ outer[m] \in {"pending", "result"}
                /\ sv[m] \in {"created", "sleeping", "done"}
                /\ acks[m] > 0 => sv[m] = "done")
    /\ \A m \in Msgs :
            (rh[m] = "raised") ~>
                ((sv[m] = "done" /\ event[m] = "set" /\ acks[m] = 1) \/ stopping)

\* restart_host raised at once while save was still asleep, and the message
\* was acknowledged all the same, the loop still running.
C4_Witness ==
    \E m \in Msgs :
        /\ rh[m] = "raised" /\ sv[m] = "done" /\ hm[m] = "done"
        /\ event[m] = "set" /\ acks[m] = 1 /\ ~stopping

\* Occurrences of x in the sequence s.
Count(s, x) == Cardinality({i \in DOMAIN s : s[i] = x})

\* Injections of m on their way to the queue: the handle of
\* run_coroutine_threadsafe, or the step of the add_to_queue task.
InFlight(m) ==
    Cardinality({i \in DOMAIN ready : ready[i].task = "add_to_queue" /\ ready[i].m = m})

\* C5 (mailbox, no loss and no duplication): every injected message is in
\* exactly one place: on its way to the queue, in the queue, or returned by
\* get(), and there exactly once; so once nothing is on its way or queued,
\* the gets have returned each injected message exactly once.
C5_NoLossNoDuplication ==
    /\ \A m \in Msgs :
        InFlight(m) + Count(GLOBAL_QUEUE, m) + Count(dequeued, m)
            = IF Delivered(m) THEN 1 ELSE 0
    /\ ((\A m \in Msgs : InFlight(m) = 0) /\ GLOBAL_QUEUE = <<>>) =>
            /\ Len(dequeued) = delivered
            /\ \A m \in Msgs : Delivered(m) => Count(dequeued, m) = 1

\* All messages of the run were injected from distinct threads and returned
\* by get().
C5_Witness ==
    /\ delivered = MaxMsgs
    /\ Len(dequeued) = MaxMsgs
    /\ \A a, b \in Msgs : a # b => thread[a] # thread[b]

\* Position of x in s (0 when absent).
Pos(s, x) == IF \E i \in DOMAIN s : s[i] = x
             THEN CHOOSE i \in DOMAIN s : s[i] = x ELSE 0

\* C6 (order within one thread): messages are numbered in the order of the
\* callback invocations; when one thread delivered a before b and b has been
\* dequeued, a was dequeued before it.
C6_ThreadOrderPreserved ==
    \A a, b \in Msgs :
        (a < b /\ Delivered(b) /\ thread[a] = thread[b] /\ Pos(dequeued, b) > 0)
            => (Pos(dequeued, a) > 0 /\ Pos(dequeued, a) < Pos(dequeued, b))

\* Two messages of one thread were both queued before get_from_queue ran,
\* and were dequeued in order.
C6_Witness ==
    \E a, b \in Msgs :
        /\ a < b /\ thread[a] = thread[b]
        /\ Pos(dequeued, a) > 0 /\ Pos(dequeued, a) < Pos(dequeued, b)
        /\ hm[a] = "created" /\ hm[b] = "created"

\* Handles of m's pipeline tasks in the ready queue.
PipelineHandles(m) ==
    {i \in DOMAIN ready :
        ready[i].m = m /\ ready[i].task \in {"cleanup", "save", "restart_host"}}

\* C7: a malformed payload (no JSON, or no 'instance_name') never gets
\* dispatch or finalize: no event, no cleanup task, no sub-task, no timer of
\* its pipeline and no acknowledge.
C7_MalformedNeverDispatched ==
    \A m \in Msgs :
        (Delivered(m) /\ Malformed(data[m])) =>
            /\ event[m] = "none"
            /\ cl[m] = "none" /\ sv[m] = "none" /\ rh[m] = "none"
            /\ outer[m] = "none"
            /\ hm[m] \in {"none", "created", "raised"}
            /\ PipelineHandles(m) = {}
            /\ \A x \in timers : x.m # m
            /\ acks[m] = 0

\* handle_message has raised at parse for a payload that is JSON without the
\* key.
C7_Witness ==
    \E m \in Msgs : data[m].json /\ ~data[m].haskey /\ hm[m] = "raised"

\* Handles of get_from_queue in the ready queue.
GetHandles == {i \in DOMAIN ready : ready[i].task = "get_from_queue"}

\* C8: the ingest loop never waits for a pipeline: get_from_queue is always
\* either suspended in get() on an empty queue or scheduled to run, whatever
\* the pipelines do; and even if sleeps never end (a pipeline is slow for
\* ever), every delivered message is dequeued and, if it parses, reaches
\* dispatch (unless the loop is stopped).
C8_IngestNeverBlocks ==
    /\ [](/\ Cardinality(GetHandles) = IF getter THEN 0 ELSE 1
          /\ getter => GLOBAL_QUEUE = <<>>)
    /\ \A m \in Msgs : Delivered(m) ~> (Pos(dequeued, m) > 0 \/ stopping)
    /\ \A m \in Msgs :
        (Delivered(m) /\ WellFormed(data[m])) ~>
            (hm[m] \in {"gathering", "done"} \/ stopping)

\* A's sub-tasks are both asleep, A's pipeline waits in gather, and B, dequeued
\* after A, has been dispatched.
C8_Witness ==
    \E a, b \in Msgs :
        /\ hm[a] = "gathering" /\ sv[a] = "sleeping" /\ rh[a] = "sleeping"
        /\ T("save", a) \in timers /\ T("restart_host", a) \in timers
        /\ Pos(dequeued, a) > 0 /\ Pos(dequeued, a) < Pos(dequeued, b)
        /\ hm[b] = "gathering" /\ sv[b] = "created" /\ rh[b] = "created"
        /\ ~stopping

\* C9 as stated: a publish_sync that raises does not end the publish task.
C9_PublishSurvivesFailure == pub # "raised"

\* C10: each callback invocation makes exactly one injection, which appends
\* one handle for add_to_queue to the loop and touches neither GLOBAL_QUEUE
\* nor anything else of the loop; and the callback can run to its return in
\* every state of the loop.
C10_CallbackInjectsOnce ==
    /\ [](\A m \in Msgs : injected[m] = IF Delivered(m) THEN 1 ELSE 0)
    /\ [](delivered < MaxMsgs =>
            \A t \in Threads, p \in Payloads :
                (FirstUse(t) /\ FirstName(p)) => ENABLED callback(t, p, MaxMsgs))
    /\ [][delivered' # delivered =>
            /\ ready' = Append(ready, H("call_soon_threadsafe", "add_to_queue", delivered'))
            /\ UNCHANGED <<GLOBAL_QUEUE, getter, dequeued, ntodo, timers,
                           stopping, halted, pipeVars>>]_vars

\* A callback has returned in the middle of a batch: its handle is behind the
\* batch, the insertion has not run, and the loop is busy with a pipeline.
C10_Witness ==
    \E m \in Msgs :
        /\ ntodo > 0 /\ Len(ready) > ntodo
        /\ ready[Len(ready)] = H("call_soon_threadsafe", "add_to_queue", m)
        /\ Head(ready).task \in {"cleanup", "save", "restart_host"}
        /\ injected[m] = 1 /\ Count(GLOBAL_QUEUE, m) = 0

\* C11: the hostname of a message's PubSubMessage is its own instance_name
\* followed by ".example.net", computed when handle_message builds it from
\* that message's payload and never changed afterwards; so two messages with
\* different instance names never have the same hostname (none is carried
\* over from another message).  Nothing is built for a message that has not
\* parsed.
C11_HostnameDerived ==
    /\ [](\A m \in Msgs :
            IF hm[m] \in {"gathering", "done"}
            THEN /\ msg[m].instance_name = data[m].name
                 /\ msg[m].message_id = m
                 /\ msg[m].hostname = data[m].name \o ".example.net"
            ELSE msg[m] = NoMsg)
    /\ [](\A a, b \in Msgs :
            (msg[a] # NoMsg /\ msg[b] # NoMsg /\ data[a].name # data[b].name)
                => msg[a].hostname # msg[b].hostname)
    /\ [][\A m \in Msgs : msg[m] # NoMsg => msg'[m] = msg[m]]_vars

\* Two messages with different instance names have both been built, the
\* second after the first.
C11_Witness ==
    \E a, b \in Msgs :
        /\ a < b /\ data[a].name = "abcd" /\ data[b].name = "wxyz"
        /\ msg[a].hostname = "abcd.example.net"
        /\ msg[b].hostname = "wxyz.example.net"

\* C12 (release): the event of a message's pipeline is set exactly once, by
\* the step of that message's handle_message that follows gather(), and only
\* when both sub-tasks have reached a terminal state and gather has counted
\* both; this happens for every combination of their outcomes: once both are
\* terminal, returned or raised, the event gets set (unless the loop is
\* stopped), and a handle_message that has ended after dispatch has set it.
C12_ReleasedOnceAfterAll ==
    /\ [](\A m \in Msgs :
            /\ sets[m] <= 1
            /\ (event[m] = "set") = (sets[m] = 1)
            /\ sets[m] = 1 => (Terminal(m) /\ nfinished[m] = 2 /\ hm[m] = "done")
            /\ (msg[m] # NoMsg /\ hm[m] \in {"done", "raised"}) => sets[m] = 1)
    /\ [][\A m \in Msgs :
            sets'[m] # sets[m] =>
                /\ ntodo > 0 /\ Head(ready) = H("step", "handle_message", m)
                /\ sets[m] = 0 /\ sets'[m] = 1
                /\ Terminal(m)]_vars
    /\ \A m \in Msgs : Terminal(m) ~> (sets[m] = 1 \/ stopping)

\* The event was set once for a pipeline whose restart_host raised and once
\* for a pipeline whose sub-tasks both returned.
C12_Witness ==
    \E a, b \in Msgs :
        /\ sets[a] = 1 /\ rh[a] = "raised" /\ sv[a] = "done"
        /\ sets[b] = 1 /\ rh[b] = "done" /\ sv[b] = "done"

\* Step handles of m's cleanup task in the ready queue.
CleanupHandles(m) == {i \in DOMAIN ready : ready[i] = H("step", "cleanup", m)}

\* C13: the event of a pipeline is monotonic (once set it stays set), it is
\* set only by a step of that message's own handle_message, and exactly one
\* cleanup task uses it: the event exists only together with the cleanup task
\* of its own message, nobody else ever waits on it, and that task is in
\* event._waiters exactly while it is suspended in event.wait().
C13_GateMonotonicOneWaiter ==
    /\ [][\A m \in Msgs : event[m] = "set" => event'[m] = "set"]_vars
    /\ [][\A m \in Msgs :
            (event[m] # "set" /\ event'[m] = "set") =>
                (ntodo > 0 /\ Head(ready) = H("step", "handle_message", m))]_vars
    /\ [](\A m \in Msgs :
            /\ (event[m] = "none") = (cl[m] = "none")
            /\ waiters[m] = IF cl[m] = "waiting" THEN <<m>> ELSE <<>>
            /\ event[m] = "unset" => cl[m] \in {"created", "waiting"}
            /\ Cardinality(CleanupHandles(m)) <= 1
            /\ cl[m] = "created" => Cardinality(CleanupHandles(m)) = 1)

\* One event is set while its cleanup, woken, has not resumed yet; the other
\* event is unset with its own cleanup waiting on it.
C13_Witness ==
    \E a, b \in Msgs :
        /\ event[a] = "set" /\ cl[a] = "waiting" /\ waiters[a] = <<a>>
        /\ event[b] = "unset" /\ cl[b] = "waiting" /\ waiters[b] = <<b>>

\* The cleanup task of m can go on: its next step is scheduled, or the timer
\* of its sleep is pending or has just fired.
CleanupCanProceed(m) ==
    \/ CleanupHandles(m) # {}
    \/ T("cleanup", m) \in timers
    \/ \E i \in DOMAIN ready : ready[i] = H("resolve", "cleanup", m)

\* C14: cleanup never deadlocks on the event, whichever of wait() and set()
\* comes first: a cleanup that has not begun to wait is scheduled, a cleanup
\* suspended in wait() is scheduled to resume exactly when the event has been
\* set, and from the set on the task can always go on until it has called
\* ack; so once the event is set, the message is acknowledged (unless the
\* loop is stopped).
C14_NoDeadlockOnGate ==
    /\ [](\A m \in Msgs :
            /\ cl[m] = "created" => CleanupHandles(m) # {}
            /\ cl[m] = "waiting" => ((CleanupHandles(m) # {}) = (event[m] = "set"))
            /\ (event[m] = "set" /\ cl[m] \notin {"acked", "raised"})
                    => CleanupCanProceed(m))
    /\ \A m \in Msgs : (event[m] = "set") ~> (acks[m] = 1 \/ stopping)

\* The event has just been set while cleanup was suspended in wait(): the
\* task is still among the waiters and its next step is scheduled.
C14_Witness ==
    \E m \in Msgs :
        /\ event[m] = "set" /\ cl[m] = "waiting" /\ waiters[m] = <<m>>
        /\ ready[Len(ready)] = H("step", "cleanup", m)
        /\ acks[m] = 0 /\ ~stopping

\* f[1] + ... + f[n].
RECURSIVE SumTo(_, _)
SumTo(f, n) == IF n = 0 THEN 0 ELSE f[n] + SumTo(f, n - 1)

\* Step handles of handle_message(m) in the ready queue.
HandleMessageHandles(m) ==
    {i \in DOMAIN ready : ready[i] = H("step", "handle_message", m)}

\* C15: every item returned by get() starts exactly one pipeline: as many
\* handle_message tasks have been created for a message as times it was
\* dequeued, in total as many as items dequeued, which are never more than
\* the items injected; a task just created has exactly one first step
\* scheduled; and get() never returns on an empty queue: a step that
\* dequeues takes its items from the front of a non-empty GLOBAL_QUEUE, and
\* suspends in get() only on an empty queue.
C15_OnePipelinePerItem ==
    /\ [](\A m \in Msgs :
            /\ started[m] = Count(dequeued, m)
            /\ started[m] <= injected[m]
            /\ (hm[m] # "none") = (started[m] = 1)
            /\ Cardinality(HandleMessageHandles(m)) =
                    IF hm[m] = "created" \/ (hm[m] = "gathering" /\ outer[m] # "pending")
                    THEN 1 ELSE 0)
    /\ [](/\ SumTo(started, MaxMsgs) = Len(dequeued)
          /\ Len(dequeued) <= SumTo(injected, MaxMsgs)
          /\ getter => GLOBAL_QUEUE = <<>>)
    /\ [][dequeued' # dequeued =>
            /\ GLOBAL_QUEUE # <<>>
            /\ dequeued' \o GLOBAL_QUEUE' = dequeued \o GLOBAL_QUEUE
            /\ Len(dequeued') > Len(dequeued)]_vars

\* One step of get_from_queue has taken two queued items and created one
\* task for each; neither task has run yet.
C15_Witness ==
    /\ Len(dequeued) = 2 /\ getter /\ GLOBAL_QUEUE = <<>>
    /\ \A m \in 1..2 :
            started[m] = 1 /\ hm[m] = "created"
                /\ Cardinality(HandleMessageHandles(m)) = 1

\* The tasks of a pipeline.
PipelineTasks == {"handle_message", "cleanup", "save", "restart_host"}

\* What belongs to the pipeline of m: the states of its tasks, its event
\* with its waiters, gather's count and future, its acknowledgements, its
\* timers and its handles in the ready queue, in their order.
PipelineOf(m) ==
    <<hm[m], event[m], sets[m], waiters[m], cl[m], sv[m], rh[m], nfinished[m],
      outer[m], acks[m], msg[m],
      {x \in timers : x.m = m},
      SelectSeq(ready, LAMBDA h : h.m = m /\ h.task \in PipelineTasks)>>

\* The handle at the head of the current batch belongs to the pipeline of m.
RunningPipeline(m) ==
    ntodo > 0 /\ Head(ready).m = m /\ Head(ready).task \in PipelineTasks

\* C16 (frame): a step of one message's pipeline (a change of its event, a
\* step of its sub-tasks, its ack) leaves everything that belongs to another
\* message's pipeline as it was; and the event, the cleanup task and the ack
\* count of a message change only in steps of that message's own pipeline,
\* so that its cleanup is released by its own handle_message only.
C16_PipelinesIndependent ==
    /\ [][\A a, b \in Msgs :
            (a # b /\ RunningPipeline(a)) => PipelineOf(b)' = PipelineOf(b)]_vars
    /\ [][\A b \in Msgs :
            <<event[b], sets[b], waiters[b], cl[b], acks[b]>>'
                    # <<event[b], sets[b], waiters[b], cl[b], acks[b]>>
                => RunningPipeline(b)]_vars
    /\ [][\A b \in Msgs :
            (cl[b] = "waiting" /\ Cardinality(CleanupHandles(b))' = 1
                               /\ Cardinality(CleanupHandles(b)) = 0)
                => (ntodo > 0 /\ Head(ready) = H("step", "handle_message", b))]_vars

\* The pipeline of a has run to its ack while the pipeline of b, dispatched
\* before a's event was set, still waits with both sub-tasks asleep.
C16_Witness ==
    \E a, b \in Msgs :
        /\ a # b
        /\ event[a] = "set" /\ acks[a] = 1 /\ cl[a] = "acked"
        /\ hm[b] = "gathering" /\ event[b] = "unset" /\ cl[b] = "waiting"
        /\ sv[b] = "sleeping" /\ rh[b] = "sleeping" /\ acks[b] = 0

\* How far the sleep of m's cleanup has got: 0 while its timer is pending,
\* 1 when the timer has fired, 2 when the task's next step is scheduled.
SleepStage(m) ==
    IF \E i \in DOMAIN ready : ready[i] = H("step", "cleanup", m) THEN 2
    ELSE IF \E i \in DOMAIN ready : ready[i] = H("resolve", "cleanup", m) THEN 1
    ELSE 0

\* Position in the ready queue of the handle of m's cleanup (0: none).
CleanupPos(m) ==
    IF \E i \in DOMAIN ready : ready[i].task = "cleanup" /\ ready[i].m = m
    THEN CHOOSE i \in DOMAIN ready : ready[i].task = "cleanup" /\ ready[i].m = m
    ELSE 0

\* Both cleanups are in their sleep before the ack, and a's has ended first.
Ahead(a, b) ==
    /\ cl[a] = "sleeping" /\ cl[b] = "sleeping"
    /\ \/ SleepStage(a) > SleepStage(b)
       \/ SleepStage(a) = SleepStage(b) /\ SleepStage(a) >= 1
                                        /\ CleanupPos(a) < CleanupPos(b)

\* C17: the pipelines of two messages run concurrently and nothing orders
\* their acks: while the cleanups of both sleep before the ack, either sleep
\* can be the first to end, whatever the order in which the messages were
\* dequeued, and the one whose sleep ends first is acknowledged first.
C17_AnyCompletionOrder ==
    /\ [](\A a, b \in Msgs :
            (a # b /\ T("cleanup", a) \in timers /\ T("cleanup", b) \in timers
                   /\ ntodo = 0 /\ ~halted)
                => (/\ ENABLED TimerExpire(T("cleanup", a))
                    /\ ENABLED TimerExpire(T("cleanup", b))))
    /\ [][\A a, b \in Msgs :
            Ahead(a, b) =>
                /\ acks'[b] = acks[b]
                /\ Ahead(a, b)' \/ acks'[a] = acks[a] + 1]_vars

\* B was dequeued after A and has been acknowledged, while A, whose
\* restart_host still sleeps, has not.
C17_Witness ==
    \E a, b \in Msgs :
        /\ Pos(dequeued, a) > 0 /\ Pos(dequeued, a) < Pos(dequeued, b)
        /\ acks[b] = 1 /\ cl[b] = "acked"
        /\ acks[a] = 0 /\ rh[a] = "sleeping" /\ hm[a] = "gathering"
        /\ ~stopping

\* C18 as stated: from the moment shutdown() has called loop.stop(), no
\* message is dequeued, no event is set and no ack is invoked.
C18_NothingAfterStop ==
    [][stopping => (dequeued' = dequeued /\ sets' = sets /\ acks' = acks)]_vars

\* C18 as amended: loop.stop() lets the current iteration of the loop finish,
\* so only the handles left in that iteration still run (each step after
\* stop() is a delivery or uses up one of them), and run_forever returns when
\* they are used up; from then on no message is dequeued, no task takes a
\* step, no event is set and no ack is invoked, so a message not
\* acknowledged by then stays unacknowledged; and no message is ever
\* acknowledged with a sub-task unfinished.
C18_NothingAfterHalt ==
    /\ [][halted =>
            /\ halted'
            /\ UNCHANGED <<queueVars, pipeVars, timers, ntodo, pub>>]_vars
    /\ [][stopping =>
            /\ stopping'
            /\ ntodo' < ntodo \/ (delivered' = delivered + 1 /\ ntodo' = ntodo)]_vars
    /\ [](/\ halted => (stopping /\ ntodo = 0)
          /\ (stopping /\ ntodo = 0) => halted
          /\ \A m \in Msgs : acks[m] > 0 => Terminal(m))

\* run_forever has returned with a pipeline in flight: its sub-tasks sleep,
\* their timers are pending, and the message is not acknowledged.
C18_Witness ==
    \E m \in Msgs :
        /\ halted /\ hm[m] = "gathering" /\ acks[m] = 0
        /\ T("save", m) \in timers /\ T("restart_host", m) \in timers

\* get_from_queue is alive: suspended in get() on an empty queue, or
\* scheduled to run.
GetFromQueueAlive ==
    /\ Cardinality(GetHandles) = IF getter THEN 0 ELSE 1
    /\ getter => GLOBAL_QUEUE = <<>>

\* C19: an ack() that raises in the cleanup of A ends that task and nothing
\* else: the step changes nothing of the queue, of get_from_queue or of
\* another pipeline and does not stop the loop (only SIGINT does);
\* get_from_queue stays alive; and every other message B that was delivered
\* with a payload that parses is dequeued, dispatched, has its event set and
\* is acknowledged (unless the loop is stopped).
C19_AckFailureNonFatal ==
    /\ [][\A a \in Msgs :
            (cl[a] # "raised" /\ cl'[a] = "raised") =>
                /\ UNCHANGED <<queueVars, stopping, hm, event, sets, sv, rh>>
                /\ GetHandles' = {i - 1 : i \in GetHandles}
                /\ \A b \in Msgs \ {a} : PipelineOf(b)' = PipelineOf(b)]_vars
    /\ []((\E a \in Msgs : cl[a] = "raised") =>
                (GetFromQueueAlive /\ (stopping => signalled)))
    /\ \A a, b \in Msgs :
            (a # b /\ cl[a] = "raised" /\ Delivered(b) /\ WellFormed(data[b])) ~>
                ((Pos(dequeued, b) > 0 /\ hm[b] = "done" /\ sets[b] = 1
                    /\ acks[b] = 1) \/ stopping)

\* The ack of A has raised; B has been dispatched, its event is set and it is
\* acknowledged; get_from_queue waits for more and the loop is running.
C19_Witness ==
    \E a, b \in Msgs :
        /\ a # b /\ cl[a] = "raised" /\ acks[a] = 1
        /\ hm[b] = "done" /\ sets[b] = 1 /\ cl[b] = "acked" /\ acks[b] = 1
        /\ ~stopping /\ GetFromQueueAlive

\* C20: a parse failure of A is contained in the task handle_message(A): the
\* step that raises changes nothing of the queue, of get_from_queue, of the
\* loop's stopping flag or of another pipeline; nothing of A's pipeline is
\* ever created; get_from_queue stays alive (it neither ends nor waits for
\* anything but the queue); and every later message B with a payload that
\* parses is dequeued, dispatched and acknowledged (unless the loop is
\* stopped).
C20_ParseFailureContained ==
    /\ [][\A a \in Msgs :
            (hm[a] = "created" /\ hm'[a] = "raised") =>
                /\ UNCHANGED <<queueVars, stopping, event, sets, waiters, cl, sv,
                               rh, nfinished, outer, acks, msg, started, timers>>
                /\ ready' = Tail(ready)
                /\ \A b \in Msgs \ {a} : hm'[b] = hm[b]]_vars
    /\ []((\E a \in Msgs : hm[a] = "raised") =>
                (GetFromQueueAlive /\ (stopping => signalled)))
    /\ \A a, b \in Msgs :
            (a < b /\ hm[a] = "raised" /\ Malformed(data[a])
                   /\ Delivered(b) /\ WellFormed(data[b])) ~>
                ((Pos(dequeued, b) > Pos(dequeued, a) /\ hm[b] = "done"
                    /\ acks[b] = 1) \/ stopping)

\* handle_message(A) has raised at parse, and B, delivered and dequeued after
\* A, has been dispatched and acknowledged, the loop still running.
C20_Witness ==
    \E a, b \in Msgs :
        /\ a < b /\ hm[a] = "raised" /\ Malformed(data[a]) /\ acks[a] = 0
        /\ Pos(dequeued, a) > 0 /\ Pos(dequeued, a) < Pos(dequeued, b)
        /\ WellFormed(data[b]) /\ hm[b] = "done" /\ cl[b] = "acked"
        /\ acks[b] = 1 /\ ~stopping

====
